---- MODULE Spec2Model ----
(***************************************************************************)
(* bcrypt-user: user accounts (register, find, exists, verifyPassword,     *)
(* setPassword) on top of a pluggable resolver (find, insert, updateHash)  *)
(* and bcrypt (hash, compare).                                             *)
(*                                                                         *)
(* The repository holds three revisions of the User object:                *)
(*   "v1"  src/index.js:31-233     new User(db, username, [realm]), with   *)
(*         _checkAllWithPassword and exists                                *)
(*   "v2"  src/index.js:292-465    new User(db, username, [opts]), with    *)
(*         protected and illegal db keys                                   *)
(*   "v0"  src/unnamed/part_000    new User(db, username, [realm])         *)
(* The resolver is the array-backed db of src/test/index.js:29-63.         *)
(*                                                                         *)
(* Every action is one turn of the JavaScript event loop: the call of a    *)
(* method, or the answer of a collaborator together with the callback code *)
(* that runs on it up to the next collaborator call.                       *)
(***************************************************************************)
EXTENDS Integers, Sequences, FiniteSets, TLC

\* ------------------------------------------------------------------ bounds

\* Handles (User objects) that exist side by side.
NHandles == 2
\* Method calls made in one behaviour by a caller that waits for each
\* callback before the next call.
MaxOps == 3
\* Method calls made in one behaviour by callers that do not wait.
MaxOverlapOps == 2
\* Collaborators (db.find, db.insert, db.updateHash, bcrypt.hash,
\* bcrypt.compare) that report errors of their own in one behaviour.
MaxFaults == 1
\* The number of method calls on a store that holds a record from the start.
MaxSeedOps == 2
\* The number of method calls where every collaborator call is answered.
MaxLiveOps == 2

Handles == 1..NHandles

\* ------------------------------------------------------------------ values

Versions == {"v1", "v2", "v0"}

Usernames == {"foo", "baz"}
Realms == {"_default", "otherRealm"}
Passwords == {"secr3t", "newpass"}

\* JavaScript values held by records and handles: undefined, a string, or a
\* bcrypt hash (the salt n and the password s it was made from).
\* typeof v is v.t, and "string" for a hash.
Undef == [t |-> "undefined", s |-> "", n |-> 0]
Str(s) == [t |-> "string", s |-> s, n |-> 0]
Obj == [t |-> "object", s |-> "", n |-> 0]
Num == [t |-> "number", s |-> "", n |-> 1]
Fn == [t |-> "function", s |-> "", n |-> 0]
True == [t |-> "boolean", s |-> "true", n |-> 0]
\* null, and the object {} that has no method: typeof gives 'object' for both.
Null == [t |-> "object", s |-> "null", n |-> 0]
Bare == [t |-> "object", s |-> "{}", n |-> 0]
Hash(p, salt) == [t |-> "hash", s |-> p, n |-> salt]

\* Errors delivered to callbacks.
ErrExists == "username already exists"
ErrIllegalKey == "object in user db contains an illegal key"
ErrUpdate == "failed to update password"
ErrDuplicate == "duplicate key"
ErrFind == "find failed"
ErrInsert == "insert failed"
ErrUpdateIO == "updateHash failed"
ErrHash == "hash failed"
ErrCompare == "compare failed"
ErrCompareArgs == "data and hash arguments required"

Errors ==
  {ErrExists, ErrIllegalKey, ErrUpdate, ErrDuplicate, ErrFind, ErrInsert,
   ErrUpdateIO, ErrHash, ErrCompare, ErrCompareArgs}

\* ----------------------------------------------------------------- records

\* A user object of the db: its keys in insertion order, <<key, value>>.
NoUser == << >>

HasKey(user, k) == \E i \in 1..Len(user) : user[i][1] = k

Get(user, k) ==
  IF HasKey(user, k)
    THEN user[CHOOSE i \in 1..Len(user) : user[i][1] = k][2]
    ELSE Undef

Put(user, k, v) ==
  IF HasKey(user, k)
    THEN [i \in 1..Len(user) |-> IF user[i][1] = k THEN <<k, v>> ELSE user[i]]
    ELSE Append(user, <<k, v>>)

\* match(lookup, user) of the test db: every key of the lookup is in the user.
Match(lookup, user) ==
  /\ Get(user, "realm") = Str(lookup.realm)
  /\ Get(user, "username") = Str(lookup.username)

Matches(us, lookup) == {i \in 1..Len(us) : Match(lookup, us[i])}

Min(S) == CHOOSE x \in S : \A y \in S : x <= y

\* db.find: the first user that matches, or null.
FindOne(us, lookup) ==
  IF Matches(us, lookup) = {} THEN NoUser ELSE us[Min(Matches(us, lookup))]

\* ------------------------------------------------------------- constructor

\* The limits of the checks on lengths.
UsernameMin == 2
UsernameMax == 128
PasswordMin == 6
RealmMin == 1
RealmMax == 128

\* Another realm for an object made without one.
DefaultRealm_Other == "otherRealm"

\* realm = '_default'
DefaultRealm == "_default"

\* A check that refuses the lengths at the limits.
CheckAllWithPassword_OpenLimits(db, username, password, realm, cb) ==
  IF db.t # "object" THEN "db must be an object"
  ELSE IF username.t # "string" THEN "username must be a string"
  ELSE IF password.t # "string" THEN "password must be a string"
  ELSE IF realm.t # "string" THEN "realm must be a string"
  ELSE IF cb.t # "function" THEN "cb must be a function"
  ELSE IF Len(username.s) <= 2 THEN "username must be at least 2 characters"
  ELSE IF Len(username.s) >= 128 THEN "username can not exceed 128 characters"
  ELSE IF Len(password.s) <= 6 THEN "password must be at least 6 characters"
  ELSE IF Len(realm.s) <= 1 THEN "realm must be at least 1 character"
  ELSE IF Len(realm.s) >= 128 THEN "realm can not exceed 128 characters"
  ELSE "ok"

\* A check that looks at the lengths before the types.
CheckAllWithPassword_LengthsFirst(db, username, password, realm, cb) ==
  IF Len(username.s) < 2 THEN "username must be at least 2 characters"
  ELSE IF Len(username.s) > 128 THEN "username can not exceed 128 characters"
  ELSE IF Len(password.s) < 6 THEN "password must be at least 6 characters"
  ELSE IF Len(realm.s) < 1 THEN "realm must be at least 1 character"
  ELSE IF Len(realm.s) > 128 THEN "realm can not exceed 128 characters"
  ELSE IF db.t # "object" THEN "db must be an object"
  ELSE IF username.t # "string" THEN "username must be a string"
  ELSE IF password.t # "string" THEN "password must be a string"
  ELSE IF realm.t # "string" THEN "realm must be a string"
  ELSE IF cb.t # "function" THEN "cb must be a function"
  ELSE "ok"

\* _checkAllWithPassword: the message of the error it throws, or "ok".
CheckAllWithPassword(db, username, password, realm, cb) ==
  IF db.t # "object" THEN "db must be an object"
  ELSE IF username.t # "string" THEN "username must be a string"
  ELSE IF password.t # "string" THEN "password must be a string"
  ELSE IF realm.t # "string" THEN "realm must be a string"
  ELSE IF cb.t # "function" THEN "cb must be a function"
  ELSE IF Len(username.s) < 2 THEN "username must be at least 2 characters"
  ELSE IF Len(username.s) > 128 THEN "username can not exceed 128 characters"
  ELSE IF Len(password.s) < 6 THEN "password must be at least 6 characters"
  ELSE IF Len(realm.s) < 1 THEN "realm must be at least 1 character"
  ELSE IF Len(realm.s) > 128 THEN "realm can not exceed 128 characters"
  ELSE "ok"

\* The checks of the constructor of src/unnamed/part_000.
CheckV0(db, username, realm) ==
  IF db.t # "object" THEN "db must be an object"
  ELSE IF username.t # "string" THEN "username must be a string"
  ELSE IF realm.t # "string" THEN "realm must be a string"
  ELSE IF Len(username.s) < 2 THEN "username must be at least 2 characters"
  ELSE IF Len(username.s) > 128 THEN "username can not exceed 128 characters"
  ELSE IF Len(realm.s) < 1 THEN "realm must be at least 1 character"
  ELSE IF Len(realm.s) > 128 THEN "realm can not exceed 128 characters"
  ELSE "ok"

\* The checks of the constructor that takes opts; realm is opts.realm.
CheckV2(db, username, realm) ==
  IF db.t # "object" THEN "db must be an object"
  ELSE IF username.t # "string" THEN "username must be a string"
  ELSE IF realm.t # "string" THEN "opts.realm must be a string"
  ELSE IF Len(username.s) < 2 THEN "username must be at least 2 characters"
  ELSE IF Len(username.s) > 128 THEN "username can not exceed 128 characters"
  ELSE IF Len(realm.s) < 1 THEN "opts.realm must be at least 1 character"
  ELSE IF Len(realm.s) > 128 THEN "opts.realm can not exceed 128 characters"
  ELSE "ok"

\* An absent realm is '_default'.
RealmOrDefault(realm) == IF realm.t = "undefined" THEN Str(DefaultRealm) ELSE realm

\* What new User(db, username, realm) throws, or "ok".
UserCheck(ver, db, username, realm) ==
  CASE ver = "v1" ->
         CheckAllWithPassword(db, username, Str("xxxxxx"), RealmOrDefault(realm), Fn)
    [] ver = "v0" -> CheckV0(db, username, RealmOrDefault(realm))
    [] ver = "v2" -> CheckV2(db, username, RealmOrDefault(realm))

\* The properties of a handle that the model follows. _realm and _username
\* are the identity key the handle is bound to; the others are set by find.
PropNames ==
  {"_realm", "_username", "_password", "realm", "username", "password", "email",
   "_hide", "_debug"}

NoHandle == [p \in PropNames |-> Undef]

\* The object new User(db, username, realm) builds.
User(username, realm) ==
  [NoHandle EXCEPT !["_realm"] = RealmOrDefault(realm), !["_username"] = username]

\* The object new User(db, username, { realm: realm, hide: hide, debug: debug })
\* builds; hide and debug are true or left out. _hide and _debug stay
\* undefined where the constructor stores false: they are read only as
\* !that._hide.
UserWithOpts(username, realm, hide, debug) ==
  [User(username, realm) EXCEPT !["_hide"] = IF hide THEN True ELSE Undef,
                                !["_debug"] = IF debug THEN True ELSE Undef]

\* ---------------------------------------------------------------- find copy

\* v1, v0: this.protectedProps.
ProtectedProps == {"_db", "_realm", "_username"}
\* v2: this._protectedDbKeys and this._illegalDbKeys.
ProtectedDbKeys == {"realm", "username", "password"}
IllegalDbKeys == {"_protectedDbKeys", "_illegalDbKeys", "_db", "_debug", "_hide"}

\* A write to a property the model does not follow leaves the handle as it is.
Assign(o, p, v) == IF p \in PropNames THEN [o EXCEPT ![p] = v] ELSE o

Underscore(k) ==
  CASE k = "realm" -> "_realm"
    [] k = "username" -> "_username"
    [] k = "password" -> "_password"

\* v1, v0: Object.keys(user).forEach: copy what is not protected.
RECURSIVE CopyProps(_, _, _)
CopyProps(o, user, i) ==
  IF i > Len(user) THEN o
  ELSE CopyProps(IF user[i][1] \in ProtectedProps
                   THEN o
                   ELSE Assign(o, user[i][1], user[i][2]),
                 user, i + 1)

\* v2: Object.keys(user).every: stop at the first illegal key; a protected
\* key k is stored as _k. The result is the handle and whether every key
\* passed.
RECURSIVE CopyKeys(_, _, _)
CopyKeys(o, user, i) ==
  IF i > Len(user) THEN [obj |-> o, ok |-> TRUE]
  ELSE IF user[i][1] \in IllegalDbKeys THEN [obj |-> o, ok |-> FALSE]
  ELSE CopyKeys(IF user[i][1] \in ProtectedDbKeys
                  THEN Assign(o, Underscore(user[i][1]), user[i][2])
                  ELSE Assign(o, user[i][1], user[i][2]),
                user, i + 1)

\* A find that, when it gets no record, drops what the object has copied.
FindCallback_ClearsOnMiss(ver, o, err, user) ==
  IF err # "null" \/ user = NoUser
    THEN [obj |-> [p \in PropNames |->
                     IF p \in {"_realm", "_username", "_hide", "_debug"}
                       THEN o[p] ELSE Undef],
          args |-> IF err # "null" THEN <<err, "false">> ELSE <<"null", "false">>,
          log |-> FALSE]
  ELSE IF ver = "v2"
    THEN LET c == CopyKeys(o, user, 1)
         IN  IF c.ok THEN [obj |-> c.obj, args |-> <<"null", "true">>, log |-> FALSE]
                     ELSE [obj |-> c.obj, args |-> <<ErrIllegalKey>>,
                           log |-> o["_hide"] # True]
    ELSE [obj |-> CopyProps(o, user, 1), args |-> <<"null", "true">>, log |-> FALSE]

\* A find that, with hide set, reports a record with an illegal key as found.
FindCallback_HideSwallows(ver, o, err, user) ==
  IF err # "null" THEN [obj |-> o, args |-> <<err, "false">>, log |-> FALSE]
  ELSE IF user = NoUser THEN [obj |-> o, args |-> <<"null", "false">>, log |-> FALSE]
  ELSE IF ver = "v2"
    THEN LET c == CopyKeys(o, user, 1)
         IN  IF c.ok \/ o["_hide"] = True
               THEN [obj |-> c.obj, args |-> <<"null", "true">>, log |-> FALSE]
               ELSE [obj |-> c.obj, args |-> <<ErrIllegalKey>>, log |-> TRUE]
    ELSE [obj |-> CopyProps(o, user, 1), args |-> <<"null", "true">>, log |-> FALSE]

\* The callback find gives to db.find, run on (err, user): the handle
\* afterwards and the arguments find's own callback is called with.
\* err is "null" or the resolver's error.
\* log: whether console.error is called.
FindCallback(ver, o, err, user) ==
  IF err # "null" THEN [obj |-> o, args |-> <<err, "false">>, log |-> FALSE]
  ELSE IF user = NoUser THEN [obj |-> o, args |-> <<"null", "false">>, log |-> FALSE]
  ELSE IF ver = "v2"
    THEN LET c == CopyKeys(o, user, 1)
         IN  IF c.ok THEN [obj |-> c.obj, args |-> <<"null", "true">>, log |-> FALSE]
                     ELSE [obj |-> c.obj, args |-> <<ErrIllegalKey>>,
                           log |-> o["_hide"] # True]
    ELSE [obj |-> CopyProps(o, user, 1), args |-> <<"null", "true">>, log |-> FALSE]

\* Whether the callback a method at pcv gives to db.find calls console.error:
\* exists, and register where it asks exists, have a callback of their own.
Logs(ver, pcv, o, err, user) ==
  IF pcv = "exists" \/ (pcv = "reg_find" /\ ver = "v1") THEN FALSE
  ELSE FindCallback(ver, o, err, user).log

\* The hash verifyPassword gives to bcrypt.compare.
StoredHash(ver, o) == IF ver = "v2" THEN o["_password"] ELSE o["password"]

\* -------------------------------------------------------------------- state

\* The identities the callers name: a username and the realm argument, which
\* may be left out.
Identities ==
  {<<Str("foo"), Undef>>, <<Str("foo"), Str("otherRealm")>>, <<Str("baz"), Undef>>}

\* The arguments the callers give: those above, and some that a check
\* refuses: a db that is a string, no username, a username of one character,
\* a realm that is a number or empty, no password, no callback.
DbArgs == {Obj, Str("")}
IdentityArgs ==
  Identities \cup
    {<<Undef, Undef>>, <<Str("a"), Undef>>, <<Str("foo"), Num>>, <<Str("foo"), Str("")>>}
PasswordArgs == {Str(p) : p \in Passwords} \cup {Undef}
CbArgs == {Fn, Undef}

\* A string of n characters, built by doubling.
RECURSIVE Chars(_)
Chars(n) ==
  IF n = 0 THEN ""
  ELSE LET half == Chars(n \div 2)
       IN  IF n % 2 = 0 THEN half \o half ELSE "x" \o half \o half

\* The arguments given to the checks alone: every type a check refuses, and
\* the lengths on both sides of every limit.
CheckArgs ==
  [db : {Obj, Null, Bare, Str(""), Undef},
   username : {Undef, Num} \cup
              {Str(Chars(n)) : n \in {0, UsernameMin - 1, UsernameMin,
                                      UsernameMax, UsernameMax + 1}},
   realm : {Undef, Num} \cup
           {Str(Chars(n)) : n \in {RealmMin - 1, RealmMin, RealmMax, RealmMax + 1}},
   password : {Undef} \cup
              {Str(Chars(n)) : n \in {0, PasswordMin - 1, PasswordMin}},
   cb : {Fn, Undef}]

\* Their identity keys, (realm, username).
Keys == {<<RealmOrDefault(id[2]).s, id[1].s>> : id \in Identities}

VARIABLES
  version,  \* the revision of User that is loaded
  unique,   \* whether the resolver's insert rejects a duplicate identity key:
            \* "yes" or "no", and "open" until it is first given one
  users,    \* db.users: the stored user objects, in insertion order
  obj,      \* obj[h]: the properties of handle h
  op,       \* op[h]: the method last called on h
  arg,      \* arg[h]: its password argument
  pc,       \* pc[h]: the collaborator call h waits for, or idle, done, threw
  req,      \* req[h]: the arguments of that call
  cbArgs,   \* cbArgs[h]: what the caller's callback was called with
  calls,    \* calls[h]: the collaborator calls of the method, with their answers
  salt,     \* the salts bcrypt has handed out
  nops,     \* method calls so far
  uses,     \* uses[h]: method calls so far on the User object h holds
  given,    \* given[h]: the arguments the object of h was made with (db,
            \* username, realm) and those of the last method call on it
            \* (password, cb)
  thrown,   \* thrown[h]: the message of the error the last call on h threw
            \* at its caller, "" if it threw none
  console,  \* console[h]: whether the last method call on h has called
            \* console.error
  faulted,  \* the collaborators that have reported an error of their own
  ledger    \* per identity key, what the callers have been told so far:
            \* started (register was called), ok (how many register calls
            \* succeeded), stuck (the password step of a register failed
            \* after its insert), and
            \* pw, the password of the last call of register or setPassword
            \* (by) if it succeeded, old, the password before a setPassword
            \* and the call that had set it (oldby)

vars ==
  <<version, unique, users, obj, op, arg, pc, req, cbArgs, calls, salt, nops,
    uses, given, thrown, console, faulted, ledger>>

Methods == {"find", "exists", "verifyPassword", "setPassword", "register"}
Resting == {"idle", "done", "threw"}
FindPcs == {"find", "exists", "vp_find", "reg_find", "reg_refind"}

NoReq == [realm |-> "", username |-> "", hash |-> Undef]
NoArgs == [db |-> Undef, username |-> Undef, realm |-> Undef, password |-> Undef, cb |-> Undef]
NoEntry ==
  [started |-> FALSE, ok |-> 0, pw |-> "", by |-> "", old |-> "", oldby |-> "",
   stuck |-> FALSE]

KeyOf(o) == <<o["_realm"].s, o["_username"].s>>

\* The arguments of a collaborator call: the lookup
\* { realm: that._realm, username: that._username }, and a hash.
LookupReq(o) == [realm |-> o["_realm"].s, username |-> o["_username"].s, hash |-> Undef]
WithHash(r, hash) == [r EXCEPT !.hash = hash]

\* The caller has seen what the last method on g called back with: the model
\* keeps it until the next method call.
Seen(g) == pc[g] \in {"done", "threw"}
Constructed(h) == obj[h]["_username"] # Undef
Quiet == \A h \in Handles : pc[h] \in Resting

Init ==
  /\ version \in Versions
  /\ unique = "open"
  /\ users = << >>
  /\ obj = [h \in Handles |-> NoHandle]
  /\ op = [h \in Handles |-> "none"]
  /\ arg = [h \in Handles |-> ""]
  /\ pc = [h \in Handles |-> "idle"]
  /\ req = [h \in Handles |-> NoReq]
  /\ cbArgs = [h \in Handles |-> << >>]
  /\ calls = [h \in Handles |-> << >>]
  /\ salt = 0
  /\ nops = 0
  /\ uses = [h \in Handles |-> 0]
  /\ given = [h \in Handles |-> NoArgs]
  /\ thrown = [h \in Handles |-> ""]
  /\ console = [h \in Handles |-> FALSE]
  /\ faulted = {}
  /\ ledger = [k \in Keys |-> NoEntry]

\* ------------------------------------------------------------- method calls

\* What the callers know of a key once method m is called on it: a call of
\* register or setPassword leaves its password open until the call succeeds.
Asked(e, m) ==
  IF m \in {"register", "setPassword"}
    THEN [e EXCEPT !.started = (@ \/ m = "register"),
                   !.old = IF m = "setPassword" THEN e.pw ELSE "",
                   !.oldby = IF m = "setPassword" THEN e.by ELSE "",
                   !.pw = "",
                   !.by = ""]
    ELSE e

\* The first collaborator call of each method: db.find for find, exists,
\* verifyPassword and register, bcrypt.hash for setPassword.
FirstCall(m) ==
  CASE m = "find" -> "find"
    [] m = "exists" -> "exists"
    [] m = "verifyPassword" -> "vp_find"
    [] m = "setPassword" -> "sp_hash"
    [] m = "register" -> "reg_find"

\* Method m called with password pw on the object o, which h holds already
\* or which was made for this call (fresh). The type checks of the method
\* pass: pw is a string and the callback a function.
Begin(h, o, fresh, m, pw, limit) ==
  /\ pc[h] \in Resting
  /\ nops < limit
  /\ o["_username"] # Undef
  /\ m = "exists" => version = "v1"
  /\ obj' = [obj EXCEPT ![h] = o]
  /\ op' = [g \in Handles |-> IF g = h THEN m ELSE IF Seen(g) THEN "none" ELSE op[g]]
  /\ arg' = [g \in Handles |-> IF g = h THEN pw ELSE IF Seen(g) THEN "" ELSE arg[g]]
  /\ pc' = [g \in Handles |->
              IF g = h THEN FirstCall(m) ELSE IF Seen(g) THEN "idle" ELSE pc[g]]
  /\ req' = [g \in Handles |->
               IF g = h THEN LookupReq(o) ELSE IF Seen(g) THEN NoReq ELSE req[g]]
  /\ cbArgs' = [g \in Handles |-> IF g = h \/ Seen(g) THEN << >> ELSE cbArgs[g]]
  /\ calls' = [g \in Handles |-> IF g = h \/ Seen(g) THEN << >> ELSE calls[g]]
  /\ nops' = nops + 1
  /\ uses' = [uses EXCEPT ![h] = IF fresh THEN 1 ELSE @ + 1]
  /\ thrown' = [g \in Handles |-> ""]
  /\ console' = [g \in Handles |-> IF g = h \/ Seen(g) THEN FALSE ELSE console[g]]
  /\ ledger' = [ledger EXCEPT ![KeyOf(o)] = Asked(@, m)]
  /\ UNCHANGED <<version, unique, users, salt, faulted>>

\* A method that checks none of its arguments.
MethodCheck_Lax(m, password, cb) == "ok"

\* The type checks a method makes before anything else: the message of the
\* TypeError it throws, or "ok". find and exists take a callback only.
MethodCheck(m, password, cb) ==
  IF m \in {"verifyPassword", "setPassword", "register"} /\ password.t # "string"
    THEN "password must be a string"
  ELSE IF cb.t # "function" THEN "cb must be a function"
  ELSE "ok"

\* A call on h throws msg at its caller: the constructor (m = "new"), or
\* method m. h holds o afterwards, on which n method calls have been made.
Reject(h, o, n, m, msg, limit) ==
  /\ pc[h] \in Resting
  /\ nops < limit
  /\ m = "exists" => version = "v1"
  /\ obj' = [obj EXCEPT ![h] = o]
  /\ op' = [g \in Handles |-> IF g = h THEN m ELSE IF Seen(g) THEN "none" ELSE op[g]]
  /\ arg' = [g \in Handles |-> IF g = h \/ Seen(g) THEN "" ELSE arg[g]]
  /\ pc' = [g \in Handles |-> IF g = h THEN "threw" ELSE IF Seen(g) THEN "idle" ELSE pc[g]]
  /\ req' = [g \in Handles |-> IF g = h \/ Seen(g) THEN NoReq ELSE req[g]]
  /\ cbArgs' = [g \in Handles |-> IF g = h \/ Seen(g) THEN << >> ELSE cbArgs[g]]
  /\ calls' = [g \in Handles |-> IF g = h \/ Seen(g) THEN << >> ELSE calls[g]]
  /\ nops' = nops + 1
  /\ uses' = [uses EXCEPT ![h] = n]
  /\ thrown' = [g \in Handles |-> IF g = h THEN msg ELSE ""]
  /\ console' = [g \in Handles |-> IF g = h \/ Seen(g) THEN FALSE ELSE console[g]]
  /\ UNCHANGED <<version, unique, users, salt, faulted, ledger>>

\* Method m of the object o called with the arguments a.password and a.cb:
\* it throws, or makes its first collaborator call.
Invoke(h, o, fresh, m, a, limit) ==
  /\ o["_username"] # Undef
  /\ given' = [given EXCEPT ![h] = a]
  /\ IF MethodCheck(m, a.password, a.cb) = "ok"
       THEN Begin(h, o, fresh, m, a.password.s, limit)
       ELSE Reject(h, o, IF fresh THEN 1 ELSE uses[h] + 1, m,
                   MethodCheck(m, a.password, a.cb), limit)

\* user.find(cb), user.exists(cb)
Call(h, m, cb, limit) ==
  /\ m \in {"find", "exists"}
  /\ Invoke(h, obj[h], FALSE, m,
            [given[h] EXCEPT !.password = Undef, !.cb = cb], limit)

\* user.verifyPassword(pw, cb), user.setPassword(pw, cb), user.register(pw, cb)
CallWithPassword(h, m, pw, cb, limit) ==
  /\ m \in {"verifyPassword", "setPassword", "register"}
  /\ Invoke(h, obj[h], FALSE, m,
            [given[h] EXCEPT !.password = pw, !.cb = cb], limit)

\* new User(db, username, realm) bound to h, and a method called on it; when
\* the constructor throws, h keeps the object it held.
NewCall(h, m, db, username, realm, pw, cb, limit) ==
  /\ m \in {"find", "exists"} <=> pw = Undef
  /\ IF UserCheck(version, db, username, realm) = "ok"
       THEN Invoke(h, User(username, realm), TRUE, m,
                   [db |-> db, username |-> username, realm |-> realm,
                    password |-> pw, cb |-> cb], limit)
       ELSE /\ Reject(h, obj[h], uses[h], "new",
                      UserCheck(version, db, username, realm), limit)
            /\ UNCHANGED given

\* new User(db, username, opts) with opts.hide or opts.debug set, and a
\* method called on it: the constructor of the revision that takes opts.
NewCallWithOpts(h, m, username, realm, hide, debug, pw, limit) ==
  /\ version = "v2"
  /\ m \in {"find", "exists"} <=> pw = Undef
  /\ UserCheck(version, Obj, username, realm) = "ok"
  /\ Invoke(h, UserWithOpts(username, realm, hide, debug), TRUE, m,
            [db |-> Obj, username |-> username, realm |-> realm,
             password |-> pw, cb |-> Fn], limit)

\* The stateless form, User.m(db, username, [password], [realm], cb):
\* _checkAllWithPassword on the arguments, then the method on a User made
\* for this one call. When the check throws, h keeps the object it held.
Stateless(h, m, username, realm, pw, limit) ==
  /\ m \in {"find", "exists"} <=> pw = ""
  /\ LET msg == CheckAllWithPassword(Obj, username,
                                     IF pw = "" THEN Str("xxxxxx") ELSE Str(pw),
                                     RealmOrDefault(realm), Fn)
     IN  IF msg = "ok"
           THEN /\ Begin(h, User(username, realm), TRUE, m, pw, limit)
                /\ given' = [given EXCEPT ![h] =
                               [db |-> Obj, username |-> username, realm |-> realm,
                                password |-> IF pw = "" THEN Undef ELSE Str(pw),
                                cb |-> Fn]]
           ELSE /\ Reject(h, obj[h], uses[h], m, msg, limit)
                /\ UNCHANGED given

\* --------------------------------------------------------- callback code

\* Where a turn leaves the method: waiting for the collaborator call next
\* (with its arguments r), done with the caller's callback called with args,
\* or thrown out of.
Wait(o, next, r) == [pc |-> next, obj |-> o, req |-> r, args |-> << >>]
Return(o, args) == [pc |-> "done", obj |-> o, req |-> NoReq, args |-> args]
Throw(o) == [pc |-> "threw", obj |-> o, req |-> NoReq, args |-> << >>]


\* find that reports an error of db.find as no record.
FindAfterFind_DropsErr(ver, o, err, user) ==
  LET f == FindCallback(ver, o, err, user)
  IN  Return(f.obj, IF err # "null" THEN <<"null", "false">> ELSE f.args)

\* find: the callback of db.find calls the caller's callback.
FindAfterFind(ver, o, err, user) ==
  LET f == FindCallback(ver, o, err, user) IN Return(f.obj, f.args)

\* exists that reports a failed find as no record.
ExistsAfterFind_HidesErr(o, err, user) ==
  IF user # NoUser THEN Return(o, <<"null", "true">>)
  ELSE Return(o, <<"null", "false">>)

\* exists that reports every key as taken.
ExistsAfterFind_AlwaysTrue(o, err, user) ==
  IF err # "null" THEN Return(o, <<err>>) ELSE Return(o, <<"null", "true">>)

\* exists (v1): the callback of db.find.
ExistsAfterFind(o, err, user) ==
  IF err # "null" THEN Return(o, <<err>>)
  ELSE IF user # NoUser THEN Return(o, <<"null", "true">>)
  ELSE Return(o, <<"null", "false">>)

\* verifyPassword that takes a record without a hash for one that any
\* password opens.
VerifyAfterFind_NoHashPasses(ver, o, err, user, throws) ==
  LET f == FindCallback(ver, o, err, user) IN
  IF f.args[1] # "null" THEN Return(f.obj, <<f.args[1]>>)
  ELSE IF f.args[2] # "true" THEN Return(f.obj, <<"null", "false">>)
  ELSE IF StoredHash(ver, f.obj).t = "undefined" THEN Return(f.obj, <<"null", "true">>)
  ELSE Wait(f.obj, "vp_compare", WithHash(LookupReq(f.obj), StoredHash(ver, f.obj)))

\* verifyPassword that compares with the hash the handle held before find,
\* when it held one.
VerifyAfterFind_StaleHash(ver, o, err, user, throws) ==
  LET f == FindCallback(ver, o, err, user)
      hash == IF StoredHash(ver, o).t = "hash"
                THEN StoredHash(ver, o)
                ELSE StoredHash(ver, f.obj)
  IN  IF f.args[1] # "null" THEN Return(f.obj, <<f.args[1]>>)
      ELSE IF f.args[2] # "true" THEN Return(f.obj, <<"null", "false">>)
      ELSE IF hash.t = "undefined" /\ throws THEN Throw(f.obj)
      ELSE Wait(f.obj, "vp_compare", WithHash(LookupReq(f.obj), hash))

\* verifyPassword that takes a record that is found for a valid password.
VerifyAfterFind_NoCompare(ver, o, err, user, throws) ==
  LET f == FindCallback(ver, o, err, user) IN
  IF f.args[1] # "null" THEN Return(f.obj, <<f.args[1]>>)
  ELSE IF f.args[2] # "true" THEN Return(f.obj, <<"null", "false">>)
  ELSE Return(f.obj, <<"null", "true">>)

\* verifyPassword: the callback it gives to find. bcrypt.compare on a hash
\* that is undefined either throws at once or reports an error, depending on
\* the bcrypt release (throws says which).
VerifyAfterFind(ver, o, err, user, throws) ==
  LET f == FindCallback(ver, o, err, user) IN
  IF f.args[1] # "null" THEN Return(f.obj, <<f.args[1]>>)
  ELSE IF f.args[2] # "true" THEN Return(f.obj, <<"null", "false">>)
  ELSE IF StoredHash(ver, f.obj).t = "undefined" /\ throws THEN Throw(f.obj)
  ELSE Wait(f.obj, "vp_compare", WithHash(LookupReq(f.obj), StoredHash(ver, f.obj)))

\* verifyPassword that, after a match, stores the hash again under a new
\* salt.
VerifyAfterCompare_Rehashes(ver, o, err, res) ==
  IF err = "null" /\ res = "true"
    THEN Wait(o, "sp_update",
              WithHash(LookupReq(o), [StoredHash(ver, o) EXCEPT !.n = @ + 1]))
  ELSE IF err # "null" THEN Return(o, <<err>>)
  ELSE Return(o, <<"null", "false">>)

\* verifyPassword that does not read the result of bcrypt.compare.
VerifyAfterCompare_IgnoresRes(ver, o, err, res) ==
  IF err # "null" THEN Return(o, <<err>>) ELSE Return(o, <<"null", "true">>)

\* verifyPassword: the callback of bcrypt.compare; res is "true" or "false".
VerifyAfterCompare(ver, o, err, res) ==
  IF ver = "v2" THEN Return(o, IF err # "null" THEN <<err>> ELSE <<"null", res>>)
  ELSE IF err # "null" THEN Return(o, <<err>>)
  ELSE IF res = "true" THEN Return(o, <<"null", "true">>)
  ELSE Return(o, <<"null", "false">>)

\* register without an existence check.
RegisterAfterFind_NoCheck(ver, o, err, found, user) == Wait(o, "reg_insert", user)

\* register: the callback of its existence check; user is the record
\* { realm, username } register built when it was called. v1 asks exists and
\* reads only doesExist, v0 asks find and reads only found, v2 asks find and
\* reads err first.
RegisterAfterFind(ver, o, err, found, user) ==
  CASE ver = "v1" ->
         IF err = "null" /\ found # NoUser
           THEN Return(o, <<ErrExists>>)
           ELSE Wait(o, "reg_insert", user)
    [] ver = "v0" ->
         LET f == FindCallback(ver, o, err, found) IN
         IF Len(f.args) > 1 /\ f.args[2] = "true"
           THEN Return(f.obj, <<ErrExists>>)
           ELSE Wait(f.obj, "reg_insert", user)
    [] ver = "v2" ->
         LET f == FindCallback(ver, o, err, found) IN
         IF f.args[1] # "null" THEN Return(f.obj, <<f.args[1]>>)
         ELSE IF f.args[2] = "true" THEN Return(f.obj, <<ErrExists>>)
         ELSE Wait(f.obj, "reg_insert", user)

\* register that drops the error of db.insert and calls nothing.
RegisterAfterInsert_Hangs(o, err) ==
  IF err # "null" THEN Wait(o, "reg_dropped", NoReq)
  ELSE Wait(o, "reg_hash", LookupReq(o))

\* register that calls db.insert again when it reports an error.
RegisterAfterInsert_Retries(o, err) ==
  IF err # "null" THEN Wait(o, "reg_insert", LookupReq(o))
  ELSE Wait(o, "reg_hash", LookupReq(o))

\* register that goes on after db.insert whatever it reports.
RegisterAfterInsert_IgnoresErr(o, err) == Wait(o, "reg_hash", LookupReq(o))

\* register: the callback of db.insert calls setPassword, which calls
\* bcrypt.hash.
RegisterAfterInsert(o, err) ==
  IF err # "null" THEN Return(o, <<err>>) ELSE Wait(o, "reg_hash", LookupReq(o))

\* setPassword that updates the hash of the username in the default realm.
SetPasswordAfterHash_DefaultRealm(o, err, hash, next) ==
  IF err # "null" THEN Return(o, <<err>>)
  ELSE Wait(o, next, WithHash([LookupReq(o) EXCEPT !.realm = DefaultRealm], hash))

\* setPassword that goes on to db.updateHash whatever bcrypt.hash reports.
SetPasswordAfterHash_GoesOn(o, err, hash, next) ==
  Wait(o, next, WithHash(LookupReq(o), hash))

\* setPassword that stores the digest the handle holds when it was made
\* from the same password.
SetPasswordAfterHash_ReusesDigest(o, err, hash, next) ==
  LET held == IF o["_password"].t = "hash" THEN o["_password"] ELSE o["password"]
  IN  IF err # "null" THEN Return(o, <<err>>)
      ELSE Wait(o, next,
                WithHash(LookupReq(o),
                         IF held.t = "hash" /\ held.s = hash.s THEN held ELSE hash))

\* setPassword: the callback of bcrypt.hash calls db.updateHash with the
\* lookup of the handle; cb is register's callback or the caller's.
SetPasswordAfterHash(o, err, hash, next) ==
  IF err # "null" THEN Return(o, <<err>>)
  ELSE Wait(o, next, WithHash(LookupReq(o), hash))

\* setPassword that reports success whatever db.updateHash reports.
SetPasswordAfterUpdate_IgnoresErr(o, err) == Return(o, <<"null">>)

\* setPassword: db.updateHash calls the caller's callback itself.
SetPasswordAfterUpdate(o, err) ==
  IF err # "null" THEN Return(o, <<err>>) ELSE Return(o, <<"null">>)

\* register that reports success without the find after setPassword.
RegisterAfterUpdate_NoRefind(o, err) ==
  IF err # "null" THEN Return(o, <<err>>) ELSE Return(o, <<"null", "true">>)

\* register that goes on to find whatever setPassword reports.
RegisterAfterUpdate_IgnoresErr(o, err) == Wait(o, "reg_refind", LookupReq(o))

\* register: the callback it gives to setPassword calls find.
RegisterAfterUpdate(o, err) ==
  IF err # "null" THEN Return(o, <<err>>) ELSE Wait(o, "reg_refind", LookupReq(o))

\* ------------------------------------------------------------ collaborators

\* The record { realm, username } that register inserts.
NewRecord(r) == <<(<<"realm", Str(r.realm)>>), (<<"username", Str(r.username)>>)>>

\* An insert that keeps the record it has for a key.
DbInsert_KeepsFirst(us, user) ==
  IF \E i \in 1..Len(us) : us[i] = user THEN us ELSE Append(us, user)

\* db.insert of the test db: users.push(user).
DbInsert(us, user) == Append(us, user)

\* An updateHash that keeps the hash a record has when that hash was made
\* after the one it is given.
DbUpdateHash_KeepsNewer(us, lookup, hash, all) ==
  [i \in 1..Len(us) |->
     IF i \in Matches(us, lookup) /\ Get(us[i], "password").n < hash.n
       THEN Put(us[i], "password", hash)
       ELSE us[i]]

\* An updateHash that matches the username in any realm.
DbUpdateHash_AnyRealm(us, lookup, hash, all) ==
  [i \in 1..Len(us) |->
     IF Get(us[i], "username") = Str(lookup.username)
       THEN Put(us[i], "password", hash)
       ELSE us[i]]

\* db.updateHash of the test db: user.password = hash on the users that
\* match: on each of them, or on the first only, as async.some goes on or
\* stops after a match (all says which).
DbUpdateHash(us, lookup, hash, all) ==
  [i \in 1..Len(us) |->
     IF i \in Matches(us, lookup) /\ (all \/ i = Min(Matches(us, lookup)))
       THEN Put(us[i], "password", hash)
       ELSE us[i]]

\* bcrypt.compare(password, hash) on a hash that bcrypt made.
BcryptCompare(password, hash) == IF hash.s = password THEN "true" ELSE "false"

\* At most MaxFaults of the collaborators report errors of their own.
MayFail(c, fail) == fail => (c \in faulted \/ Cardinality(faulted) < MaxFaults)

\* ------------------------------------------------------------------- ledger

ReqKey(h) == <<req[h].realm, req[h].username>>

Succeeded(m, args) ==
  \/ m = "register" /\ args = <<"null", "true">>
  \/ m = "setPassword" /\ args = <<"null">>

InsertedIn(cs) == \E i \in 1..Len(cs) : cs[i] = <<"insert", "ok">>

\* The password step of register failed after its insert: bcrypt.hash or
\* db.updateHash reported an error.
PasswordStepFailed(cs) ==
  /\ InsertedIn(cs)
  /\ \E i \in 1..Len(cs) : cs[i][1] \in {"hash", "updateHash"} /\ cs[i][2] # "ok"

\* What the callers know of key k once method m on it has called back with
\* args after the collaborator calls cs.
Told(e, m, pw, args, cs) ==
  IF Succeeded(m, args)
    THEN [e EXCEPT !.ok = IF m = "register" THEN @ + 1 ELSE @,
                   !.pw = pw,
                   !.by = m]
  ELSE IF m = "register" /\ PasswordStepFailed(cs)
    THEN [e EXCEPT !.stuck = TRUE]
  ELSE e

\* A turn of handle h ends as out says, after the answer c of a collaborator.
Turn(h, out, c) ==
  /\ pc' = [pc EXCEPT ![h] = out.pc]
  /\ obj' = [obj EXCEPT ![h] = out.obj]
  /\ req' = [req EXCEPT ![h] =
               IF out.pc \in Resting THEN WithHash(req[h], Undef) ELSE out.req]
  /\ cbArgs' = [cbArgs EXCEPT ![h] = out.args]
  /\ calls' = [calls EXCEPT ![h] = Append(@, c)]
  /\ ledger' = IF out.pc = "done"
                 THEN [ledger EXCEPT ![ReqKey(h)] =
                         Told(@, op[h], arg[h], out.args, Append(calls[h], c))]
                 ELSE ledger
  /\ UNCHANGED <<version, op, arg, nops, uses, given, thrown>>

\* ------------------------------------------------------ collaborator answers

\* db.find answers handle h.
FindAnswers(h, fail, throws) ==
  /\ pc[h] \in FindPcs
  /\ MayFail("find", fail)
  /\ LET err == IF fail THEN ErrFind ELSE "null"
         user == IF fail THEN NoUser ELSE FindOne(users, req[h])
         ans == IF fail THEN ErrFind ELSE IF user = NoUser THEN "none" ELSE "found"
         out == CASE pc[h] \in {"find", "reg_refind"} ->
                       FindAfterFind(version, obj[h], err, user)
                  [] pc[h] = "exists" -> ExistsAfterFind(obj[h], err, user)
                  [] pc[h] = "vp_find" ->
                       VerifyAfterFind(version, obj[h], err, user, throws)
                  [] pc[h] = "reg_find" ->
                       RegisterAfterFind(version, obj[h], err, user, req[h])
     IN  /\ throws => out.pc = "threw"
         /\ Turn(h, out, <<"find", ans>>)
         /\ console' = [console EXCEPT
                          ![h] = @ \/ Logs(version, pc[h], obj[h], err, user)]
  /\ faulted' = IF fail THEN faulted \cup {"find"} ELSE faulted
  /\ UNCHANGED <<unique, users, salt>>

\* db.insert answers handle h. The resolver either has a uniqueness
\* constraint on the identity key or has none: rejects says which, the first
\* time it is given a duplicate.
InsertAnswers(h, fail, rejects) ==
  /\ pc[h] = "reg_insert"
  /\ MayFail("insert", fail)
  /\ LET dup == ~fail /\ Matches(users, req[h]) # {}
         err == IF fail THEN ErrInsert
                ELSE IF dup /\ rejects THEN ErrDuplicate
                ELSE "null"
     IN  /\ dup => rejects = (IF unique = "open" THEN rejects ELSE unique = "yes")
         /\ ~dup => ~rejects
         /\ unique' = IF dup THEN (IF rejects THEN "yes" ELSE "no") ELSE unique
         /\ users' = IF err = "null" THEN DbInsert(users, NewRecord(req[h])) ELSE users
         /\ Turn(h, RegisterAfterInsert(obj[h], err),
                 <<"insert", IF err = "null" THEN "ok" ELSE err>>)
  /\ faulted' = IF fail THEN faulted \cup {"insert"} ELSE faulted
  /\ UNCHANGED <<salt, console>>

\* bcrypt.hash answers handle h, with a hash under a salt not used before.
HashAnswers(h, fail) ==
  /\ pc[h] \in {"sp_hash", "reg_hash"}
  /\ MayFail("hash", fail)
  /\ LET err == IF fail THEN ErrHash ELSE "null"
         hash == IF fail THEN Undef ELSE Hash(arg[h], salt + 1)
         next == IF pc[h] = "sp_hash" THEN "sp_update" ELSE "reg_update"
     IN  Turn(h, SetPasswordAfterHash(obj[h], err, hash, next),
              <<"hash", IF fail THEN err ELSE "ok">>)
  /\ salt' = IF fail THEN salt ELSE salt + 1
  /\ faulted' = IF fail THEN faulted \cup {"hash"} ELSE faulted
  /\ UNCHANGED <<unique, users, console>>

\* db.updateHash answers handle h.
UpdateHashAnswers(h, fail, all) ==
  /\ pc[h] \in {"sp_update", "reg_update"}
  /\ MayFail("updateHash", fail)
  /\ LET err == IF fail THEN ErrUpdateIO
                ELSE IF Matches(users, req[h]) = {} THEN ErrUpdate
                ELSE "null"
     IN  /\ users' = IF err = "null"
                       THEN DbUpdateHash(users, req[h], req[h].hash, all)
                       ELSE users
         /\ Turn(h, IF pc[h] = "sp_update"
                      THEN SetPasswordAfterUpdate(obj[h], err)
                      ELSE RegisterAfterUpdate(obj[h], err),
                 <<"updateHash", IF err = "null" THEN "ok" ELSE err>>)
  /\ faulted' = IF fail THEN faulted \cup {"updateHash"} ELSE faulted
  /\ UNCHANGED <<unique, salt, console>>

\* bcrypt.compare answers handle h.
CompareAnswers(h, fail) ==
  /\ pc[h] = "vp_compare"
  /\ MayFail("compare", fail)
  /\ req[h].hash.t = "undefined" => ~fail
  /\ LET err == IF req[h].hash.t = "undefined" THEN ErrCompareArgs
                ELSE IF fail THEN ErrCompare
                ELSE "null"
         res == IF err = "null" THEN BcryptCompare(arg[h], req[h].hash) ELSE "undefined"
     IN  Turn(h, VerifyAfterCompare(version, obj[h], err, res),
              <<"compare", IF err = "null" THEN res ELSE err>>)
  /\ faulted' = IF fail THEN faulted \cup {"compare"} ELSE faulted
  /\ UNCHANGED <<unique, users, salt, console>>

\* ------------------------------------------------------------ specifications

\* The method calls made on the handles of H, at most limit of them.
Calls(H, limit) ==
  \E h \in H :
    \/ \E m \in Methods, cb \in CbArgs : Call(h, m, cb, limit)
    \/ \E m \in Methods, pw \in PasswordArgs, cb \in CbArgs :
         CallWithPassword(h, m, pw, cb, limit)
    \/ \E db \in DbArgs, id \in IdentityArgs :
         IF UserCheck(version, db, id[1], id[2]) = "ok"
           THEN \E m \in Methods, pw \in PasswordArgs, cb \in CbArgs :
                  NewCall(h, m, db, id[1], id[2], pw, cb, limit)
           ELSE NewCall(h, "find", db, id[1], id[2], Undef, Fn, limit)
    \/ \E m \in Methods, id \in Identities, pw \in Passwords \cup {""} :
         Stateless(h, m, id[1], id[2], pw, limit)

Answers ==
  \E h \in Handles :
    \/ \E fail, throws \in BOOLEAN : FindAnswers(h, fail, throws)
    \/ \E fail, rejects \in BOOLEAN : InsertAnswers(h, fail, rejects)
    \/ \E fail \in BOOLEAN : HashAnswers(h, fail)
    \/ \E fail, all \in BOOLEAN : UpdateHashAnswers(h, fail, all)
    \/ \E fail \in BOOLEAN : CompareAnswers(h, fail)

\* Callers may call while other calls are under way.
Next == Calls(Handles, MaxOverlapOps) \/ Answers

Spec == Init /\ [][Next]_vars

\* One caller, with one User object at a time, calls one method at a time,
\* each after the one before has called back (as the tests do).
SeqNext == (Quiet /\ Calls({1}, MaxOps)) \/ Answers

SeqSpec == Init /\ [][SeqNext]_vars

\* The records a resolver may hold for ('_default', 'foo') before the first
\* call: the three fields register stores and one more, before or after
\* them: a field of the application (email), or one that has the name of a
\* property the User object keeps for itself.
ExtraFields ==
  {<<"email", Str("foo@example.com")>>, <<"_db", Obj>>, <<"_realm", Str("otherRealm")>>,
   <<"_username", Str("baz")>>, <<"_hide", Str("")>>}

SeedRecords ==
  LET base == <<<<"realm", Str(DefaultRealm)>>, <<"username", Str("foo")>>,
                <<"password", Hash("secr3t", 0)>>>>
  IN  {base} \cup {<<f>> \o base : f \in ExtraFields}
             \cup {Append(base, f) : f \in ExtraFields}

SeedInit ==
  /\ version \in Versions
  /\ unique = "open"
  /\ users \in {<<r>> : r \in SeedRecords}
  /\ obj = [h \in Handles |-> NoHandle]
  /\ op = [h \in Handles |-> "none"]
  /\ arg = [h \in Handles |-> ""]
  /\ pc = [h \in Handles |-> "idle"]
  /\ req = [h \in Handles |-> NoReq]
  /\ cbArgs = [h \in Handles |-> << >>]
  /\ calls = [h \in Handles |-> << >>]
  /\ salt = 0
  /\ nops = 0
  /\ uses = [h \in Handles |-> 0]
  /\ given = [h \in Handles |-> NoArgs]
  /\ thrown = [h \in Handles |-> ""]
  /\ console = [h \in Handles |-> FALSE]
  /\ faulted = {}
  /\ ledger = [k \in Keys |-> NoEntry]

\* Two callers set two different passwords on the identity
\* ('_default', 'foo'), which has a record, each on a User object of its
\* own and in calls that may overlap; once both calls have called back, each
\* caller verifies the password it has set.
MaxRaceOps == 4

RaceInit ==
  /\ SeedInit
  /\ \A i \in 1..Len(users[1]) :
       users[1][i][1] \in {"realm", "username", "password", "email"}

RaceSet ==
  \E h \in Handles, pw \in Passwords :
    /\ given[h] = NoArgs
    /\ \A g \in Handles : given[g].password # Str(pw)
    /\ NewCall(h, "setPassword", Obj, Str("foo"), Undef, Str(pw), Fn, MaxRaceOps)

RaceVerify ==
  \E h \in Handles :
    /\ \A g \in Handles :
         /\ given[g] # NoArgs
         /\ op[g] \in {"setPassword", "register"} => pc[g] = "done"
    /\ op[h] # "verifyPassword"
    /\ CallWithPassword(h, "verifyPassword", given[h].password, Fn, MaxRaceOps)

RaceAnswers ==
  \E h \in Handles :
    \/ \E fail, throws \in BOOLEAN : FindAnswers(h, fail, throws)
    \/ \E fail \in BOOLEAN : HashAnswers(h, fail)
    \/ \E fail, all \in BOOLEAN : UpdateHashAnswers(h, fail, all)
    \/ \E fail \in BOOLEAN : CompareAnswers(h, fail)

RaceNext == RaceSet \/ RaceVerify \/ RaceAnswers

RaceSpec == RaceInit /\ [][RaceNext]_vars

\* Two callers register the identity ('_default', 'foo') with two different
\* passwords, each on a User object of its own and in calls that may
\* overlap; once both calls have called back, each caller verifies the
\* password it has registered.
RegRaceSet ==
  \E h \in Handles, pw \in Passwords :
    /\ given[h] = NoArgs
    /\ \A g \in Handles : given[g].password # Str(pw)
    /\ NewCall(h, "register", Obj, Str("foo"), Undef, Str(pw), Fn, MaxRaceOps)

RegRaceNext == RegRaceSet \/ RaceVerify \/ Answers

RegRaceSpec == Init /\ [][RegRaceNext]_vars

\* The calls on objects made with opts: hide set, or debug set.
OptsCalls(h, limit) ==
  \E m \in Methods, id \in Identities, pw \in PasswordArgs,
     opts \in {<<TRUE, FALSE>>, <<FALSE, TRUE>>} :
    NewCallWithOpts(h, m, id[1], id[2], opts[1], opts[2], pw, limit)

SeedNext ==
  \/ Quiet /\ Calls({1}, MaxSeedOps)
  \/ Quiet /\ OptsCalls(1, MaxSeedOps)
  \/ Answers

SeedSpec == SeedInit /\ [][SeedNext]_vars

\* One caller, one call at a time, and every collaborator call that is
\* pending gets its answer in the end: the resolver and bcrypt call back.
LiveNext == (Quiet /\ Calls({1}, MaxLiveOps)) \/ Answers

LiveSpec == Init /\ [][LiveNext]_vars /\ WF_vars(Answers)

\* A call on h that returns at once and leaves h with the object o.
Accept(h, o, m) ==
  /\ pc[h] \in Resting
  /\ obj' = [obj EXCEPT ![h] = o]
  /\ op' = [op EXCEPT ![h] = m]
  /\ pc' = [pc EXCEPT ![h] = "done"]
  /\ nops' = nops + 1
  /\ UNCHANGED <<version, unique, users, arg, req, cbArgs, calls, salt, uses,
                 thrown, console, faulted, ledger>>

\* User._checkAllWithPassword(db, username, password, realm, cb), called
\* alone as the tests call it.
CheckAll ==
  /\ version = "v1"
  /\ op[1] = "none"
  /\ LET a == given[1]
         msg == CheckAllWithPassword(a.db, a.username, a.password, a.realm, a.cb)
     IN  IF msg = "ok" THEN Accept(1, obj[1], "check")
         ELSE Reject(1, obj[1], uses[1], "check", msg, 1)
  /\ UNCHANGED given

\* new User(db, username, realm), and no call on the object.
New ==
  /\ op[1] = "none"
  /\ LET a == given[1]
         msg == UserCheck(version, a.db, a.username, a.realm)
     IN  IF msg = "ok" THEN Accept(1, User(a.username, a.realm), "new")
         ELSE Reject(1, obj[1], uses[1], "new", msg, 1)
  /\ UNCHANGED given

CheckInit ==
  /\ version \in Versions
  /\ unique = "open"
  /\ users = << >>
  /\ obj = [h \in Handles |-> NoHandle]
  /\ op = [h \in Handles |-> "none"]
  /\ arg = [h \in Handles |-> ""]
  /\ pc = [h \in Handles |-> "idle"]
  /\ req = [h \in Handles |-> NoReq]
  /\ cbArgs = [h \in Handles |-> << >>]
  /\ calls = [h \in Handles |-> << >>]
  /\ salt = 0
  /\ nops = 0
  /\ uses = [h \in Handles |-> 0]
  /\ \E a \in CheckArgs : given = [h \in Handles |-> IF h = 1 THEN a ELSE NoArgs]
  /\ thrown = [h \in Handles |-> ""]
  /\ console = [h \in Handles |-> FALSE]
  /\ faulted = {}
  /\ ledger = [k \in Keys |-> NoEntry]

CheckNext == CheckAll \/ New

CheckSpec == CheckInit /\ [][CheckNext]_vars

\* The end-to-end scenario on the identity ('_default', 'foo'): the calls in
\* their order, each with the values its callback is to get. exists is a
\* method of the revision at src/index.js:134 only.
Script(ver) ==
  LET T == <<"null", "true">>
      F == <<"null", "false">>
      all == <<[m |-> "register", pw |-> "secr3t", out |-> T],
               [m |-> "exists", pw |-> "", out |-> T],
               [m |-> "verifyPassword", pw |-> "secr3t", out |-> T],
               [m |-> "verifyPassword", pw |-> "wrong", out |-> F],
               [m |-> "setPassword", pw |-> "newpass", out |-> <<"null">>],
               [m |-> "verifyPassword", pw |-> "secr3t", out |-> F],
               [m |-> "verifyPassword", pw |-> "newpass", out |-> T]>>
  IN  IF ver = "v1" THEN all ELSE SelectSeq(all, LAMBDA c : c.m # "exists")

\* The caller makes the next call of the script once the call before has
\* called back: on the User object it holds, on a new one, or stateless.
ScriptCall ==
  /\ Quiet
  /\ nops < Len(Script(version))
  /\ LET c == Script(version)[nops + 1]
         pw == IF c.pw = "" THEN Undef ELSE Str(c.pw)
         limit == Len(Script(version))
     IN  \/ /\ KeyOf(obj[1]) = <<DefaultRealm, "foo">>
            /\ \/ Call(1, c.m, Fn, limit)
               \/ CallWithPassword(1, c.m, pw, Fn, limit)
         \/ \E realm \in {Undef, Str(DefaultRealm)} :
              NewCall(1, c.m, Obj, Str("foo"), realm, pw, Fn, limit)
         \/ \E realm \in {Undef, Str(DefaultRealm)} :
              Stateless(1, c.m, Str("foo"), realm, c.pw, limit)

ScriptNext == ScriptCall \/ Answers

ScriptSpec == Init /\ [][ScriptNext]_vars

\* ------------------------------------------------------------------- claims

Key(h) == <<req[h].realm, req[h].username>>
Done(h, m) == pc[h] = "done" /\ op[h] = m
Stored(k) == Matches(users, [realm |-> k[1], username |-> k[2]])
Record(k) == FindOne(users, [realm |-> k[1], username |-> k[2]])

\* No collaborator of the method on h has reported an error of its own.
NoFault(h) ==
  \A i \in 1..Len(calls[h]) :
    calls[h][i][2] \notin {ErrFind, ErrInsert, ErrHash, ErrUpdateIO, ErrCompare}

\* C1: once register(key, p) has called back with success, verifyPassword on
\* the key calls back with (null, true) for p and with (null, false) for any
\* other password, and on a key that no register was called for it calls
\* back with (null, false); no error is delivered when the resolver and
\* bcrypt report none.
C1_VerifyAfterRegister ==
  \A h \in Handles :
    (Done(h, "verifyPassword") /\ NoFault(h)) =>
      /\ (ledger[Key(h)].by = "register" /\ ledger[Key(h)].pw = arg[h])
           => cbArgs[h] = <<"null", "true">>
      /\ (ledger[Key(h)].by = "register" /\ ledger[Key(h)].pw # arg[h])
           => cbArgs[h] = <<"null", "false">>
      /\ ~ledger[Key(h)].started => cbArgs[h] = <<"null", "false">>

C1_Witness ==
  \E h \in Handles :
    /\ Done(h, "verifyPassword")
    /\ ledger[Key(h)].by = "register"
    /\ ledger[Key(h)].pw = arg[h]
    /\ cbArgs[h] = <<"null", "true">>

\* C2: when the existence check of register is answered while the key has a
\* record, register calls back with 'username already exists' in that turn,
\* after this one find and with no call of insert, and db.users (the record
\* and its digest) is left as it was.
C2_RegisterExisting ==
  [][\A h \in Handles :
       (/\ pc[h] = "reg_find"
        /\ pc'[h] # "reg_find"
        /\ Stored(Key(h)) # {}
        /\ calls'[h][1][2] # ErrFind) =>
         /\ pc'[h] = "done"
         /\ cbArgs'[h] = <<ErrExists>>
         /\ calls'[h] = <<(<<"find", "found">>)>>
         /\ users' = users]_vars

C2_Witness ==
  \E h \in Handles :
    /\ Done(h, "register")
    /\ cbArgs[h] = <<ErrExists>>
    /\ calls[h] = <<(<<"find", "found">>)>>
    /\ Get(Record(Key(h)), "password").t = "hash"
    /\ Get(Record(Key(h)), "password").s # arg[h]

\* C3: once register on (r, u) has called back with success, exists on
\* (r, u) calls back with (null, true), and exists on (r2, u), where no
\* register was called for (r2, u), calls back with (null, false).
C3_ExistsAfterRegister ==
  \A h \in Handles :
    (Done(h, "exists") /\ NoFault(h)) =>
      /\ ledger[Key(h)].ok > 0 => cbArgs[h] = <<"null", "true">>
      /\ ~ledger[Key(h)].started => cbArgs[h] = <<"null", "false">>

C3_Witness ==
  \E h \in Handles :
    /\ Done(h, "exists")
    /\ cbArgs[h] = <<"null", "false">>
    /\ \E k \in Keys : k[2] = Key(h)[2] /\ k[1] # Key(h)[1] /\ ledger[k].ok > 0

\* C4: once setPassword(p_new) has called back with success on a key whose
\* password was p_old # p_new, verifyPassword calls back with (null, true)
\* for p_new and with (null, false) for p_old, whether the calls are made on
\* one User object or each on a User of its own.
C4_VerifyAfterSetPassword ==
  \A h \in Handles :
    (/\ Done(h, "verifyPassword")
     /\ NoFault(h)
     /\ ledger[Key(h)].by = "setPassword"
     /\ ledger[Key(h)].old \notin {"", ledger[Key(h)].pw}) =>
      /\ arg[h] = ledger[Key(h)].pw => cbArgs[h] = <<"null", "true">>
      /\ arg[h] = ledger[Key(h)].old => cbArgs[h] = <<"null", "false">>

\* register, setPassword and verifyPassword of the old password, all three
\* on one User object.
C4_Witness ==
  \E h \in Handles :
    /\ Done(h, "verifyPassword")
    /\ uses[h] = 3
    /\ ledger[Key(h)].by = "setPassword"
    /\ ledger[Key(h)].old \notin {"", ledger[Key(h)].pw}
    /\ arg[h] = ledger[Key(h)].old
    /\ cbArgs[h] = <<"null", "false">>

\* C5: setPassword on a key that has no record calls back with the very
\* error db.updateHash reports, having called bcrypt.hash and db.updateHash
\* only (no find, no insert), and the turn in which db.updateHash reports
\* the error leaves db.users as it was.
C5_SetPasswordNoRecord ==
  /\ [](\A h \in Handles :
          (Done(h, "setPassword") /\ Stored(Key(h)) = {} /\ NoFault(h)) =>
            /\ Len(calls[h]) = 2
            /\ calls[h][1] = <<"hash", "ok">>
            /\ calls[h][2][1] = "updateHash"
            /\ calls[h][2][2] \in Errors
            /\ cbArgs[h] = <<calls[h][2][2]>>)
  /\ [][\A h \in Handles :
          (pc[h] = "sp_update" /\ pc'[h] = "done" /\ cbArgs'[h] # <<"null">>)
            => users' = users]_vars

C5_Witness ==
  \E h \in Handles :
    /\ Done(h, "setPassword")
    /\ cbArgs[h] = <<ErrUpdate>>
    /\ users # << >>
    /\ Stored(Key(h)) = {}

\* C6: in every reachable state db.users holds at most one record per
\* identity key, whatever the resolver's insert does with a duplicate and
\* however the register calls interleave (here even while no collaborator
\* has reported an error of its own).
C6_OneRecordPerKey ==
  faulted = {} => \A k \in Keys : Cardinality(Stored(k)) <= 1

\* C7: two register calls for one key that have both had 'not found' from
\* their existence check both go on to db.insert, and once an insert that
\* accepts duplicates has answered both, both have inserted and db.users
\* holds two records for the key.
C7_BothInsert ==
  \A h, g \in Handles :
    (/\ h # g
     /\ op[h] = "register" /\ op[g] = "register"
     /\ Key(h) = Key(g)
     /\ calls[h] # << >> /\ calls[g] # << >>
     /\ calls[h][1] = <<"find", "none">>
     /\ calls[g][1] = <<"find", "none">>) =>
      /\ Len(calls[h]) = 1 => pc[h] = "reg_insert"
      /\ (/\ Len(calls[h]) >= 2 /\ Len(calls[g]) >= 2
          /\ unique # "yes"
          /\ "insert" \notin faulted) =>
           /\ calls[h][2] = <<"insert", "ok">>
           /\ calls[g][2] = <<"insert", "ok">>
           /\ Cardinality(Stored(Key(h))) >= 2

C7_Witness ==
  \E h, g \in Handles :
    /\ h # g
    /\ op[h] = "register" /\ op[g] = "register"
    /\ Key(h) = Key(g)
    /\ Len(calls[h]) >= 2 /\ Len(calls[g]) >= 2
    /\ calls[h][1] = <<"find", "none">> /\ calls[h][2] = <<"insert", "ok">>
    /\ calls[g][1] = <<"find", "none">> /\ calls[g][2] = <<"insert", "ok">>
    /\ Cardinality(Stored(Key(h))) = 2

\* C8: with a resolver whose insert rejects a duplicate identity key, the
\* register calls, overlapping or not, leave at most one record per key, at
\* most one of them for a key calls back with success, and every other one
\* calls back with an error: the resolver's conflict error or 'username
\* already exists' when no collaborator reports an error of its own.
C8_RejectingInsert ==
  unique # "no" =>
    /\ \A k \in Keys : Cardinality(Stored(k)) <= 1 /\ ledger[k].ok <= 1
    /\ \A h \in Handles :
         (Done(h, "register") /\ cbArgs[h] # <<"null", "true">>) =>
           /\ cbArgs[h][1] \in Errors
           /\ NoFault(h) => cbArgs[h] \in {<<ErrDuplicate>>, <<ErrExists>>}

C8_Witness ==
  \E h, g \in Handles :
    /\ h # g
    /\ Done(h, "register") /\ Done(g, "register")
    /\ Key(h) = Key(g)
    /\ cbArgs[h] = <<"null", "true">>
    /\ cbArgs[g] = <<ErrDuplicate>>
    /\ Cardinality(Stored(Key(h))) = 1

\* C9: when db.insert of register succeeds and bcrypt.hash or db.updateHash
\* then reports an error, register calls back with that error and the record
\* it inserted stays in db.users without a password; and a later register for
\* that key whose existence check is answered calls back with 'username
\* already exists'.
C9_PartialRegister ==
  /\ [](\A h \in Handles :
          (Done(h, "register") /\ PasswordStepFailed(calls[h])) =>
            /\ \A i \in 1..Len(calls[h]) :
                 (calls[h][i][1] \in {"hash", "updateHash"} /\ calls[h][i][2] # "ok")
                   => cbArgs[h] = <<calls[h][i][2]>>
            /\ users # << >>
            /\ Match([realm |-> Key(h)[1], username |-> Key(h)[2]], users[Len(users)])
            /\ ~HasKey(users[Len(users)], "password"))
  /\ [][\A h \in Handles :
          (/\ pc[h] = "reg_find"
           /\ pc'[h] # "reg_find"
           /\ ledger[Key(h)].stuck
           /\ calls'[h][1][2] # ErrFind) =>
            (pc'[h] = "done" /\ cbArgs'[h] = <<ErrExists>>)]_vars

\* A register that is refused on a key whose record an earlier register left
\* without a password.
C9_Witness ==
  \E h \in Handles :
    /\ Done(h, "register")
    /\ cbArgs[h] = <<ErrExists>>
    /\ ledger[Key(h)].stuck
    /\ ~HasKey(Record(Key(h)), "password")

\* C10: verifyPassword with a password that is not the one of the record
\* calls its callback with the values it calls it with for a key that has no
\* record, (null, false), when the resolver and bcrypt report no error of
\* their own.
C10_SameAsNoRecord ==
  \A h \in Handles :
    (/\ op[h] = "verifyPassword"
     /\ pc[h] \in {"done", "threw"}
     /\ NoFault(h)
     /\ Stored(Key(h)) # {}
     /\ Get(Record(Key(h)), "password").s # arg[h]) =>
      (pc[h] = "done" /\ cbArgs[h] = <<"null", "false">>)

\* C11: a setPassword that succeeds with the password the stored digest was
\* made from (as a second setPassword with the same password does) stores a
\* digest of that password that differs from the one stored before.
C11_FreshDigest ==
  [][\A h \in Handles :
       (/\ pc[h] = "sp_update"
        /\ pc'[h] = "done"
        /\ cbArgs'[h] = <<"null">>
        /\ Get(Record(Key(h)), "password").t = "hash"
        /\ Get(Record(Key(h)), "password").s = arg[h]) =>
         LET before == Get(Record(Key(h)), "password")
             after == Get(FindOne(users', req[h]), "password")
         IN  after.t = "hash" /\ after.s = arg[h] /\ after # before]_vars

\* The second of two setPassword calls with one password has succeeded.
C11_Witness ==
  \E h \in Handles :
    /\ Done(h, "setPassword")
    /\ cbArgs[h] = <<"null">>
    /\ ledger[Key(h)].by = "setPassword"
    /\ ledger[Key(h)].oldby = "setPassword"
    /\ ledger[Key(h)].old = arg[h]
    /\ Get(Record(Key(h)), "password").s = arg[h]

C13_Rules(m, a) ==
  LET realm == IF m = "new" THEN RealmOrDefault(a.realm) ELSE a.realm
      checked == m = "check"
  IN  <<[rule |-> "db type", bad |-> a.db.t # "object"],
        [rule |-> "username type", bad |-> a.username.t # "string"],
        [rule |-> "password type", bad |-> checked /\ a.password.t # "string"],
        [rule |-> "realm type", bad |-> realm.t # "string"],
        [rule |-> "cb type", bad |-> checked /\ a.cb.t # "function"],
        [rule |-> "username short", bad |-> Len(a.username.s) < UsernameMin],
        [rule |-> "username long", bad |-> Len(a.username.s) > UsernameMax],
        [rule |-> "password short", bad |-> checked /\ Len(a.password.s) < PasswordMin],
        [rule |-> "realm short", bad |-> Len(realm.s) < RealmMin],
        [rule |-> "realm long", bad |-> Len(realm.s) > RealmMax]>>

\* The rule an error message is about.
C13_RuleOf(msg) ==
  CASE msg = "db must be an object" -> "db type"
    [] msg = "username must be a string" -> "username type"
    [] msg = "password must be a string" -> "password type"
    [] msg \in {"realm must be a string", "opts.realm must be a string"} -> "realm type"
    [] msg = "cb must be a function" -> "cb type"
    [] msg = "username must be at least 2 characters" -> "username short"
    [] msg = "username can not exceed 128 characters" -> "username long"
    [] msg = "password must be at least 6 characters" -> "password short"
    [] msg \in {"realm must be at least 1 character",
                "opts.realm must be at least 1 character"} -> "realm short"
    [] msg \in {"realm can not exceed 128 characters",
                "opts.realm can not exceed 128 characters"} -> "realm long"
    [] OTHER -> "none"

\* C13: when the arguments break several rules of the validation, the error
\* thrown is the one of the first rule broken in the order db type, username
\* type, password type, realm type, cb type, username too short, username
\* too long, password too short, realm too short, realm too long.
C13_FirstRuleWins ==
  (op[1] \in {"check", "new"} /\ pc[1] # "idle") =>
    LET rules == C13_Rules(op[1], given[1]) IN
    \A i \in 1..Len(rules) :
      (rules[i].bad /\ \A j \in 1..(i - 1) : ~rules[j].bad) =>
        (pc[1] = "threw" /\ C13_RuleOf(thrown[1]) = rules[i].rule)

\* The check has refused arguments that break a rule on a type and rules on
\* lengths: no callback, a username too long, a password too short and an
\* empty realm.
C13_Witness ==
  /\ op[1] = "check"
  /\ pc[1] = "threw"
  /\ given[1].cb = Undef
  /\ Len(given[1].username.s) > UsernameMax
  /\ given[1].password = Str(Chars(PasswordMin - 1))
  /\ given[1].realm = Str("")
  /\ thrown[1] = "cb must be a function"

\* C14: the validation throws nothing exactly when db is an object (by
\* typeof), username, password and realm are strings, cb is a function,
\* 2 <= length(username) <= 128, length(password) >= 6 and
\* 1 <= length(realm) <= 128; a constructor checks neither password nor cb
\* and takes an absent realm as '_default'.
C14_AcceptsExactly ==
  (op[1] \in {"check", "new"} /\ pc[1] # "idle") =>
    LET a == given[1]
        realm == IF op[1] = "new" THEN RealmOrDefault(a.realm) ELSE a.realm
    IN  (pc[1] = "done" /\ thrown[1] = "") <=>
          /\ a.db.t = "object"
          /\ a.username.t = "string"
          /\ realm.t = "string"
          /\ Len(a.username.s) \in UsernameMin..UsernameMax
          /\ Len(realm.s) \in RealmMin..RealmMax
          /\ op[1] = "check" =>
               /\ a.password.t = "string"
               /\ a.cb.t = "function"
               /\ Len(a.password.s) >= PasswordMin

\* The check has accepted a username of 128 characters, a password of 6 and
\* a realm of 1.
C14_Witness ==
  /\ op[1] = "check"
  /\ pc[1] = "done"
  /\ Len(given[1].username.s) = UsernameMax
  /\ Len(given[1].password.s) = PasswordMin
  /\ Len(given[1].realm.s) = RealmMin

\* C15: the validation accepts a db only if it is an object that has the
\* methods find, insert and updateHash.
C15_UsableDb ==
  (op[1] \in {"check", "new"} /\ pc[1] = "done") => given[1].db = Obj

\* C16: a collaborator is called, or the callback is called, only for
\* arguments that pass the checks of the constructor and of the method; and
\* a call that throws an error of a check throws it in the step of the call,
\* with no collaborator called, the callback not called and the store as it
\* was.
C16_RejectsBeforeIO ==
  /\ [](\A h \in Handles :
         (op[h] \in Methods /\ (calls[h] # << >> \/ cbArgs[h] # << >>)) =>
           LET a == given[h]
               realm == RealmOrDefault(a.realm)
           IN  /\ a.db.t = "object"
               /\ a.username.t = "string"
               /\ realm.t = "string"
               /\ Len(a.username.s) \in UsernameMin..UsernameMax
               /\ Len(realm.s) \in RealmMin..RealmMax
               /\ a.cb.t = "function"
               /\ op[h] \in {"verifyPassword", "setPassword", "register"} =>
                    a.password.t = "string")
  /\ [][\A h \in Handles :
          (thrown'[h] # "" /\ nops' # nops) =>
            /\ pc'[h] = "threw"
            /\ calls'[h] = << >>
            /\ cbArgs'[h] = << >>
            /\ users' = users
            /\ salt' = salt]_vars

\* register without a callback has thrown while the store holds a record.
C16_Witness ==
  \E h \in Handles :
    /\ op[h] = "register"
    /\ pc[h] = "threw"
    /\ thrown[h] = "cb must be a function"
    /\ given[h].cb = Undef
    /\ users # << >>
    /\ calls[h] = << >>

\* C17: on an object made without a realm, every lookup given to db.find
\* and db.updateHash and the record given to db.insert carry the realm
\* '_default'; once register has succeeded on it, the record is stored under
\* ('_default', username) and under no other realm of that username, unless
\* a register was called for that other key.
C17_DefaultRealm ==
  /\ [](\A h \in Handles :
         (op[h] \in Methods /\ given[h].realm = Undef) =>
           /\ pc[h] \notin Resting =>
                (req[h].realm = "_default" /\ req[h].username = given[h].username.s)
           /\ (pc[h] = "done" /\ op[h] = "register" /\ cbArgs[h] = <<"null", "true">>) =>
                LET u == given[h].username.s IN
                /\ Stored(<<"_default", u>>) # {}
                /\ Get(Record(<<"_default", u>>), "realm") = Str("_default")
                /\ \A r \in Realms \ {"_default"} :
                     (<<r, u>> \notin Keys \/ ~ledger[<<r, u>>].started) =>
                       Stored(<<r, u>>) = {})
  /\ [][\A h \in Handles :
          (pc[h] = "reg_insert" /\ given[h].realm = Undef /\ users' # users) =>
            /\ Len(users') = Len(users) + 1
            /\ Get(users'[Len(users')], "realm") = Str("_default")
            /\ Get(users'[Len(users')], "username") = given[h].username]_vars

\* register has succeeded on an object made without a realm, and the store
\* holds its record under '_default' and none under 'otherRealm'.
C17_Witness ==
  \E h \in Handles :
    /\ Done(h, "register")
    /\ cbArgs[h] = <<"null", "true">>
    /\ given[h].realm = Undef
    /\ given[h].username = Str("foo")
    /\ Get(Record(<<"_default", "foo">>), "realm") = Str("_default")
    /\ Stored(<<"otherRealm", "foo">>) = {}

\* C18: exists makes one call, db.find, and calls back with (null, true)
\* exactly when find gave a record, with (null, false) exactly when find
\* gave none, and with the error of find, as it is, exactly when find
\* failed.
C18_ExistsPassesThrough ==
  \A h \in Handles :
    Done(h, "exists") =>
      /\ Len(calls[h]) = 1
      /\ calls[h][1][1] = "find"
      /\ calls[h][1][2] = "found" <=> cbArgs[h] = <<"null", "true">>
      /\ calls[h][1][2] = "none" <=> cbArgs[h] = <<"null", "false">>
      /\ calls[h][1][2] = ErrFind <=> cbArgs[h] = <<ErrFind>>

\* exists has called back with the error of db.find.
C18_Witness ==
  \E h \in Handles :
    /\ Done(h, "exists")
    /\ calls[h] = <<<<"find", ErrFind>>>>
    /\ cbArgs[h] = <<ErrFind>>

\* The names a revision keeps for the User object itself.
C19_Reserved == IF version = "v2" THEN IllegalDbKeys ELSE ProtectedProps

\* C19: when db.find gives find a record that has a field with a reserved
\* name, find calls back with an error and not with found = true; when the
\* record has none, find calls back with (null, true) and the handle holds
\* every field of the record.
C19_ReservedIsError ==
  \A h \in Handles :
    (Done(h, "find") /\ calls[h] = <<<<"find", "found">>>>) =>
      LET user == Record(Key(h)) IN
      IF \E i \in 1..Len(user) : user[i][1] \in C19_Reserved
        THEN cbArgs[h][1] # "null" /\ cbArgs[h] # <<"null", "true">>
        ELSE /\ cbArgs[h] = <<"null", "true">>
             /\ \A i \in 1..Len(user) :
                  LET k == user[i][1]
                      p == IF version = "v2" /\ k \in ProtectedDbKeys
                             THEN Underscore(k) ELSE k
                  IN  obj[h][p] = user[i][2]

\* C20: when register on a User object has called back with success, the
\* realm, the username and the password hash the object holds are those of
\* the record stored for its key, and the hash is one of the password
\* register was given.
C20_HandleIsRecord ==
  \A h \in Handles :
    (Done(h, "register") /\ cbArgs[h] = <<"null", "true">>) =>
      LET user == Record(Key(h))
          held(k) == obj[h][IF version = "v2" THEN Underscore(k) ELSE k]
      IN  /\ user # NoUser
          /\ KeyOf(obj[h]) = Key(h)
          /\ \A k \in {"realm", "username", "password"} : held(k) = Get(user, k)
          /\ held("realm") = Str(Key(h)[1])
          /\ held("username") = Str(Key(h)[2])
          /\ held("password").t = "hash"
          /\ held("password").s = arg[h]

\* register has succeeded on a User object that an earlier call was made
\* on, and the object holds the hash of the record.
C20_Witness ==
  \E h \in Handles :
    /\ Done(h, "register")
    /\ cbArgs[h] = <<"null", "true">>
    /\ uses[h] > 1
    /\ StoredHash(version, obj[h]) = Get(Record(Key(h)), "password")
    /\ StoredHash(version, obj[h]).s = arg[h]

\* The records of db.users for key k, in their order.
C21_RecordsOf(us, k) ==
  SelectSeq(us, LAMBDA u : Match([realm |-> k[1], username |-> k[2]], u))

C22_OtherOpts(o) ==
  [o EXCEPT !["_hide"] = IF @ = True THEN Undef ELSE True,
            !["_debug"] = IF @ = True THEN Undef ELSE True]

\* C22: in the revision that takes opts, what find's callback to db.find
\* delivers and copies is the same for an object made with the other choice
\* of hide and debug, the step leaves the store as it is, and find on a
\* record with an illegal key calls back with the illegal-key error whether
\* hide is set or not.
C22_OptsChangeNothing ==
  /\ [](\A h \in Handles :
         (/\ version = "v2"
          /\ Done(h, "find")
          /\ calls[h] = <<<<"find", "found">>>>
          /\ \E i \in 1..Len(Record(Key(h))) : Record(Key(h))[i][1] \in IllegalDbKeys) =>
           cbArgs[h] = <<ErrIllegalKey>>)
  /\ [][\A h \in Handles :
          (version = "v2" /\ pc[h] \in FindPcs /\ calls'[h] # calls[h]) =>
            LET ans == calls'[h][Len(calls'[h])][2]
                err == IF ans = ErrFind THEN ErrFind ELSE "null"
                user == IF ans = ErrFind THEN NoUser ELSE FindOne(users, req[h])
                mine == FindCallback(version, obj[h], err, user)
                other == FindCallback(version, C22_OtherOpts(obj[h]), err, user)
            IN  /\ other.args = mine.args
                /\ other.obj = C22_OtherOpts(mine.obj)
                /\ users' = users
                /\ obj'[h] = mine.obj
                /\ pc[h] \in {"find", "reg_refind"} => cbArgs'[h] = other.args]_vars

\* find on an object made with hide set has called back with the
\* illegal-key error, and console.error was not called.
C22_Witness ==
  \E h \in Handles :
    /\ version = "v2"
    /\ Done(h, "find")
    /\ obj[h]["_hide"] = True
    /\ cbArgs[h] = <<ErrIllegalKey>>
    /\ ~console[h]

\* C23: when db.find reports an error to the existence check of register,
\* register calls back with that error and makes no other collaborator
\* call.
C23_FindErrorStopsRegister ==
  \A h \in Handles :
    (op[h] = "register" /\ calls[h] # << >> /\ calls[h][1] = <<"find", ErrFind>>) =>
      /\ Len(calls[h]) = 1
      /\ pc[h] = "done"
      /\ cbArgs[h] = <<ErrFind>>

\* C24: a register that has called back with success has made exactly the
\* collaborator calls find, insert, hash, updateHash, find, in this order,
\* each answered without an error; and in every register a call that is
\* answered with an error is the last one.
C24_RegisterOrder ==
  \A h \in Handles :
    op[h] = "register" =>
      /\ (pc[h] = "done" /\ cbArgs[h] = <<"null", "true">>) =>
           calls[h] = <<(<<"find", "none">>), (<<"insert", "ok">>), (<<"hash", "ok">>),
                        (<<"updateHash", "ok">>), (<<"find", "found">>)>>
      /\ \A i \in 1..Len(calls[h]) :
           calls[h][i][2] \notin {"ok", "none", "found"} =>
             (i = Len(calls[h]) /\ pc[h] \in {"done", "threw"})

\* C25: when bcrypt.hash reports an error to setPassword, setPassword calls
\* back with that error, db.updateHash is not called, and no step of the
\* call writes the store.
C25_HashFailure ==
  /\ [](\A h \in Handles :
         (op[h] = "setPassword" /\ calls[h] # << >> /\ calls[h][1] = <<"hash", ErrHash>>) =>
           /\ calls[h] = <<<<"hash", ErrHash>>>>
           /\ pc[h] = "done"
           /\ cbArgs[h] = <<ErrHash>>)
  /\ [][\A h \in Handles :
          (\/ op'[h] = "setPassword" /\ pc'[h] = "sp_hash" /\ pc[h] # "sp_hash"
           \/ pc[h] = "sp_hash" /\ calls'[h] = <<<<"hash", ErrHash>>>>) =>
            users' = users]_vars

\* setPassword has called back with the error of bcrypt.hash on a key whose
\* record keeps the hash of its first password.
C25_Witness ==
  \E h \in Handles :
    /\ Done(h, "setPassword")
    /\ cbArgs[h] = <<ErrHash>>
    /\ Get(Record(Key(h)), "password").t = "hash"
    /\ Get(Record(Key(h)), "password").s # arg[h]

\* C26: when db.find reports an error, find calls back with that error and
\* found = false and verifyPassword calls back with that error without
\* calling bcrypt.compare; the properties of the User object stay as they
\* were.
C26_FindErrorPassedOn ==
  [][\A h \in Handles :
       (pc[h] \in {"find", "vp_find"} /\ calls'[h] = Append(calls[h], <<"find", ErrFind>>)) =>
         /\ pc'[h] = "done"
         /\ obj'[h] = obj[h]
         /\ pc[h] = "find" => cbArgs'[h] = <<ErrFind, "false">>
         /\ pc[h] = "vp_find" => cbArgs'[h] = <<ErrFind>>
         /\ \A i \in 1..Len(calls'[h]) : calls'[h][i][1] # "compare"]_vars

\* find on a User object that holds the hash of its record has called back
\* with the error of db.find, and the object still holds the hash.
C26_Witness ==
  \E h \in Handles :
    /\ Done(h, "find")
    /\ cbArgs[h] = <<ErrFind, "false">>
    /\ StoredHash(version, obj[h]).t = "hash"
    /\ StoredHash(version, obj[h]) = Get(Record(Key(h)), "password")

\* C27: a property a User object has got stays on it: no answer of a
\* collaborator to a method on the object leaves a property undefined that
\* was defined, and a method call changes no property of the object it is
\* called on (a handle whose properties change at a call holds a new User
\* object, with nothing copied yet).
C27_NeverUnpopulated ==
  [][\A h \in Handles :
       /\ calls'[h] # calls[h] /\ calls'[h] # << >> =>
            \A p \in PropNames : obj[h][p] # Undef => obj'[h][p] # Undef
       /\ (nops' # nops /\ obj'[h] # obj[h]) =>
            \A p \in PropNames \ {"_realm", "_username", "_hide", "_debug"} :
              obj'[h][p] = Undef]_vars

\* setPassword has succeeded on a User object that still holds the hash an
\* earlier call copied, of another password.
C27_Witness ==
  \E h \in Handles :
    /\ Done(h, "setPassword")
    /\ cbArgs[h] = <<"null">>
    /\ uses[h] > 1
    /\ StoredHash(version, obj[h]).t = "hash"
    /\ StoredHash(version, obj[h]).s # arg[h]

\* How many of the collaborator calls cs are calls of c.
C28_Count(cs, c) == Cardinality({i \in 1..Len(cs) : cs[i][1] = c})

\* C28: a method call makes each collaborator call at most once, but
\* register, which calls db.find at most twice (find and exists call
\* db.find only, verifyPassword db.find and bcrypt.compare, setPassword
\* bcrypt.hash and db.updateHash); its callback is called at most once: when
\* the method is done, and then neither another callback nor another
\* collaborator call follows until the next method call.
C28_NoRetry ==
  /\ [](\A h \in Handles :
         LET n(c) == C28_Count(calls[h], c) IN
         /\ n("find") <= (IF op[h] = "register" THEN 2 ELSE 1)
         /\ n("insert") <= 1 /\ n("hash") <= 1 /\ n("updateHash") <= 1
         /\ n("compare") <= 1
         /\ op[h] \in {"find", "exists"} => Len(calls[h]) = n("find")
         /\ op[h] = "verifyPassword" => Len(calls[h]) = n("find") + n("compare")
         /\ op[h] = "setPassword" => Len(calls[h]) = n("hash") + n("updateHash")
         /\ op[h] = "register" => n("compare") = 0
         /\ cbArgs[h] # << >> => pc[h] = "done")
  /\ [][\A h \in Handles :
          (pc[h] \in Resting /\ nops' = nops) =>
            (cbArgs'[h] = cbArgs[h] /\ calls'[h] = calls[h] /\ pc'[h] = pc[h])]_vars

\* register has called back with the error of db.insert after two
\* collaborator calls.
C28_Witness ==
  \E h \in Handles :
    /\ Done(h, "register")
    /\ cbArgs[h] = <<ErrInsert>>
    /\ calls[h] = <<(<<"find", "none">>), (<<"insert", ErrInsert>>)>>

\* C29: when every collaborator call is answered, every method call that
\* has passed its checks ends with the caller's callback called, unless
\* bcrypt.compare throws instead of calling back.
C29_CallbackInTheEnd ==
  \A h \in Handles :
    (pc[h] \notin Resting) ~>
      (\/ pc[h] = "done" /\ cbArgs[h] # << >>
       \/ pc[h] = "threw" /\ thrown[h] = "" /\ op[h] = "verifyPassword")

\* verifyPassword has called its callback with the error of bcrypt.compare.
C29_Witness ==
  \E h \in Handles :
    /\ Done(h, "verifyPassword")
    /\ cbArgs[h] = <<ErrCompare>>
    /\ Len(calls[h]) = 2


\* C30: whatever record the resolver returns, a User object stays bound to
\* the realm and the username it was constructed with: the key it builds
\* its lookups from is the key given to the constructor, after any find.
C30_IdentityKept ==
  \A h \in Handles :
    obj[h]["_username"] # Undef =>
      KeyOf(obj[h]) = <<RealmOrDefault(given[h].realm).s, given[h].username.s>>


\* C31: when find calls back with the illegal-key error, the User object
\* is as it was before the call: nothing of the rejected record has been
\* copied, the fields before the illegal key included.
C31_RejectedLeavesHandle ==
  [][\A h \in Handles :
       (pc[h] \in FindPcs /\ pc'[h] = "done" /\ cbArgs'[h] = <<ErrIllegalKey>>) =>
         obj'[h] = obj[h]]_vars


\* The methods that only read.
C32_Readers == {"find", "exists", "verifyPassword"}

\* C32: find, exists and verifyPassword only read the store: every
\* collaborator call they make is db.find or bcrypt.compare, and the answer
\* to it leaves db.users as it was, also while calls on other objects are
\* under way; exists leaves the properties of its User object as they were.
C32_ReadOnly ==
  [][\A h \in Handles :
       (op[h] \in C32_Readers /\ Len(calls'[h]) = Len(calls[h]) + 1) =>
         /\ users' = users
         /\ calls'[h][Len(calls'[h])][1] \in {"find", "compare"}
         /\ op[h] = "exists" => obj'[h] = obj[h]]_vars

\* exists has found a record with a hash, and its User object holds no
\* password.
C32_Witness ==
  \E h \in Handles :
    /\ Done(h, "exists")
    /\ cbArgs[h] = <<"null", "true">>
    /\ Get(Record(Key(h)), "password").t = "hash"
    /\ obj[h]["password"] = Undef


\* The fields of a record other than the hash.
C33_Rest(user) == SelectSeq(user, LAMBDA f : f[1] # "password")

C34_LastUpdateWins ==
  /\ [](/\ \A i \in 1..Len(users) : Get(users[i], "password").t = "hash"
        /\ \A h \in Handles :
             (/\ Done(h, "verifyPassword")
              /\ NoFault(h)
              /\ faulted \cap {"hash", "updateHash"} = {}) =>
               /\ ledger[Key(h)].by = "setPassword"
               /\ cbArgs[h] =
                    <<"null", IF arg[h] = ledger[Key(h)].pw THEN "true" ELSE "false">>
        /\ \A h, g \in Handles :
             (/\ h # g
              /\ Done(h, "verifyPassword") /\ Done(g, "verifyPassword")
              /\ NoFault(h) /\ NoFault(g)
              /\ faulted \cap {"hash", "updateHash"} = {}) =>
               /\ arg[h] # arg[g]
               /\ <<"null", "true">> \in {cbArgs[h], cbArgs[g]}
               /\ <<"null", "false">> \in {cbArgs[h], cbArgs[g]})
  /\ [][\A h \in Handles :
          (pc[h] = "sp_update" /\ pc'[h] = "done" /\ cbArgs'[h] = <<"null">>) =>
            /\ Get(users'[1], "password") = req[h].hash
            /\ ledger'[Key(h)].pw = arg[h]]_vars

\* Both callers have verified; the caller whose bcrypt.hash answered first
\* had its db.updateHash answered last, and its password is the valid one.
C34_Witness ==
  \E h, g \in Handles :
    /\ h # g
    /\ Done(h, "verifyPassword") /\ Done(g, "verifyPassword")
    /\ cbArgs[h] = <<"null", "true">>
    /\ cbArgs[g] = <<"null", "false">>
    /\ Get(users[1], "password") = Hash(arg[h], 1)
    /\ salt = 2


\* C35: when both of two register calls for a key, overlapping or not, have
\* called back with success, no setPassword is called and no collaborator
\* reports an error, verifyPassword of the password of either of them calls
\* back with (null, true).
C35_EveryRegisteredPassword ==
  \A h \in Handles :
    (/\ Done(h, "verifyPassword")
     /\ faulted = {}
     /\ arg[h] = given[h].password.s
     /\ ledger[Key(h)].ok = 2) =>
      cbArgs[h] = <<"null", "true">>


\* C36: verifyPassword on a key whose record has no hash (register left it
\* when bcrypt.hash or db.updateHash reported an error) does not call back
\* with (null, true), whatever the password, on a new User object and on one
\* that find has filled before; and no User object holds a hash for a key
\* whose record has none.
C36_NoHashNoMatch ==
  \A h \in Handles :
    /\ (/\ op[h] = "verifyPassword"
        /\ pc[h] \in {"done", "threw"}
        /\ calls[h] # << >>
        /\ calls[h][1] = <<"find", "found">>
        /\ ~HasKey(Record(Key(h)), "password")) =>
         cbArgs[h] # <<"null", "true">>
    /\ (/\ Constructed(h)
        /\ Stored(KeyOf(obj[h])) # {}
        /\ ~HasKey(Record(KeyOf(obj[h])), "password")) =>
         StoredHash(version, obj[h]).t # "hash"

\* verifyPassword on a User object that find had filled from the record
\* without a hash: bcrypt.compare reports that it has no hash.
C36_Witness ==
  \E h \in Handles :
    /\ Done(h, "verifyPassword")
    /\ uses[h] >= 2
    /\ obj[h]["username"] # Undef \/ version = "v2"
    /\ ledger[Key(h)].stuck
    /\ ~HasKey(Record(Key(h)), "password")
    /\ cbArgs[h] = <<ErrCompareArgs>>

====
